---- MODULE Spec2Model ----
(***************************************************************************)
(* Model of cmd/api-tester/main.go: the CRUD harness `main`, the async job *)
(* creation `createJobs` with its polling loop over `getAsyncTask`, and    *)
(* the list checks `testPagination` / `testOrdering`.                      *)
(*                                                                         *)
(* The scheduling API is the environment: every response (status, body,    *)
(* Location header, async-task state and output) is a nondeterministic     *)
(* choice from a bounded set.                                              *)
(***************************************************************************)
EXTENDS Integers, Sequences, FiniteSets, TLC

----------------------------------------------------------------------------
(* Bounds of the model *)

MaxLocLen == 4        \* longest Location header value, in characters
MaxJobs == 2          \* most elements of a well-formed output array
MaxRawLen == 2        \* longest arbitrary (mostly ill-formed) output, in tokens
MaxState == 4         \* largest async-task state code the server sends
MaxRecords == 5       \* most records in a credentials list response

(* Program constants *)

MaxAttempts == 30     \* for i := 0; i < 30; i++

APIKeyHeader == "x-api-key"
APISecretHeader == "x-secret-key"
AccountIDHeader == "x-account-id"
ContentTypeHeader == "Content-Type"
AuthHeaders == {APIKeyHeader, APISecretHeader, AccountIDHeader}

StatusOK == 200
StatusCreated == 201
StatusAccepted == 202
StatusNoContent == 204
\* the statuses the server answers with: the four the harness expects, and 500
Statuses == {StatusOK, StatusCreated, StatusAccepted, StatusNoContent, 500}

----------------------------------------------------------------------------
(* strings.Split(location, "/") on strings modelled as character sequences *)

LocChars == {"/", "a"}

SeqsUpTo(S, n) == UNION {[1..m -> S] : m \in 0..n}

\* "a" is also a hexadecimal digit
HexChars == {"a"}

\* what a Location value ends with: nothing, or a "%" and up to two digits
Escapes == {<<>>} \cup {<<"%">> \o h : h \in SeqsUpTo(HexChars, 2)}

\* the Location values the server sends: slashes and letters, then an Escape
Locations ==
    {l \o e : l \in SeqsUpTo(LocChars, MaxLocLen), e \in Escapes} \cap
    SeqsUpTo(LocChars \cup {"%"}, MaxLocLen)

RECURSIVE SplitFrom(_, _, _)
\* parts of s from position p on, cur being the part collected so far
SplitFrom(s, p, cur) ==
    IF p > Len(s) THEN <<cur>>
    ELSE IF s[p] = "/" THEN <<cur>> \o SplitFrom(s, p + 1, <<>>)
    ELSE SplitFrom(s, p + 1, Append(cur, s[p]))

Split(s) == SplitFrom(s, 1, <<>>)

\* http.NewRequest parses the URL: a "%" that is not followed by two
\* hexadecimal digits is an invalid escape

ValidEscapes(s) ==
    \A p \in 1..Len(s) :
        s[p] = "%" => (p + 2 <= Len(s) /\ s[p + 1] \in HexChars /\ s[p + 2] \in HexChars)

\* fmt.Sprintf("%s/api/v1/...%s", host, id): the host, the fixed path, whose
\* characters need no escape, and what the wrapper appends to it
URL(host, id) == host \o <<"/">> \o id

\* http.NewRequest returns an error
NewRequestFails(url) == ~ValidEscapes(url)

----------------------------------------------------------------------------
(* json.Unmarshal([]byte(task.Output), &createdJobs), createdJobs []Job.   *)
(* An output is a sequence of JSON tokens; "j1" and "j2" are the JSON      *)
(* objects of the job records created for the first and second request.    *)

Tokens == {"[", "]", ",", "j1", "j2", "null"}
ElemTokens == {"j1", "j2", "null"}

RECURSIVE JoinElems(_)
JoinElems(es) ==
    IF Len(es) = 0 THEN <<>>
    ELSE IF Len(es) = 1 THEN <<es[1]>>
    ELSE <<es[1], ",">> \o JoinElems(Tail(es))

ArrayOf(es) == <<"[">> \o JoinElems(es) \o <<"]">>

ArrayOutputs == {ArrayOf(es) : es \in SeqsUpTo(ElemTokens, MaxJobs)}
RawOutputs == SeqsUpTo(Tokens, MaxRawLen)
Outputs == ArrayOutputs \cup RawOutputs

\* A parse result: ok, the position after the value, the kind of the value
\* ("obj", "null", "arr"), and for an array the kinds/jobs of its elements.
NoParse == [ok |-> FALSE, next |-> 0, kind |-> "none", job |-> 0, elems |-> <<>>]

RECURSIVE ParseValue(_, _)
RECURSIVE ParseElems(_, _, _)

\* one JSON value of s starting at position p
ParseValue(s, p) ==
    IF p > Len(s) THEN NoParse
    ELSE IF s[p] = "j1" THEN [ok |-> TRUE, next |-> p + 1, kind |-> "obj", job |-> 1, elems |-> <<>>]
    ELSE IF s[p] = "j2" THEN [ok |-> TRUE, next |-> p + 1, kind |-> "obj", job |-> 2, elems |-> <<>>]
    ELSE IF s[p] = "null" THEN [ok |-> TRUE, next |-> p + 1, kind |-> "null", job |-> 0, elems |-> <<>>]
    ELSE IF s[p] = "[" THEN
        IF p + 1 <= Len(s) /\ s[p + 1] = "]"
        THEN [ok |-> TRUE, next |-> p + 2, kind |-> "arr", job |-> 0, elems |-> <<>>]
        ELSE ParseElems(s, p + 1, <<>>)
    ELSE NoParse

\* the elements of an array of s from position p on, acc the elements so far
ParseElems(s, p, acc) ==
    LET v == ParseValue(s, p) IN
    IF ~v.ok THEN NoParse
    ELSE LET acc2 == Append(acc, [kind |-> v.kind, job |-> v.job]) IN
         IF v.next > Len(s) THEN NoParse
         ELSE IF s[v.next] = "]"
              THEN [ok |-> TRUE, next |-> v.next + 1, kind |-> "arr", job |-> 0, elems |-> acc2]
         ELSE IF s[v.next] = "," THEN ParseElems(s, v.next + 1, acc2)
         ELSE NoParse

\* the input is valid JSON: exactly one value and nothing after it
ValidJSON(s) == LET v == ParseValue(s, 1) IN v.ok /\ v.next = Len(s) + 1

\* UnmarshalJobs losing the last element of the array
UnmarshalJobsDropsLast(s) ==
    LET v == ParseValue(s, 1) IN
    IF ~ValidJSON(s) THEN [err |-> TRUE, jobs |-> <<>>]
    ELSE IF v.kind = "null" THEN [err |-> FALSE, jobs |-> <<>>]
    ELSE IF v.kind = "arr" THEN
        IF \E n \in 1..Len(v.elems) : v.elems[n].kind = "arr"
        THEN [err |-> TRUE, jobs |-> <<>>]
        ELSE [err |-> FALSE, jobs |-> [n \in 1..(Len(v.elems) - 1) |-> v.elems[n].job]]
    ELSE [err |-> TRUE, jobs |-> <<>>]

\* UnmarshalJobs filling the slice back to front
UnmarshalJobsReversed(s) ==
    LET v == ParseValue(s, 1) IN
    IF ~ValidJSON(s) THEN [err |-> TRUE, jobs |-> <<>>]
    ELSE IF v.kind = "null" THEN [err |-> FALSE, jobs |-> <<>>]
    ELSE IF v.kind = "arr" THEN
        IF \E n \in 1..Len(v.elems) : v.elems[n].kind = "arr"
        THEN [err |-> TRUE, jobs |-> <<>>]
        ELSE [err |-> FALSE,
              jobs |-> [n \in 1..Len(v.elems) |-> v.elems[Len(v.elems) + 1 - n].job]]
    ELSE [err |-> TRUE, jobs |-> <<>>]

\* Unmarshal into []Job: null leaves the nil slice, an array gives one Job per
\* element (a null element the zero Job, 0), anything else is an error.
UnmarshalJobs(s) ==
    LET v == ParseValue(s, 1) IN
    IF ~ValidJSON(s) THEN [err |-> TRUE, jobs |-> <<>>]
    ELSE IF v.kind = "null" THEN [err |-> FALSE, jobs |-> <<>>]
    ELSE IF v.kind = "arr" THEN
        IF \E n \in 1..Len(v.elems) : v.elems[n].kind = "arr"
        THEN [err |-> TRUE, jobs |-> <<>>]
        ELSE [err |-> FALSE, jobs |-> [n \in 1..Len(v.elems) |-> v.elems[n].job]]
    ELSE [err |-> TRUE, jobs |-> <<>>]

----------------------------------------------------------------------------
(* State *)

VARIABLES
    args,        \* the command line of main; baseURL and accountId of the test
    prog,        \* which entry point runs: "main" or "test" (testGetAllCredentials)
    pc,          \* position in the running entry point
    exitCode,    \* -1 while running; 0 normal end or -h, 1 os.Exit(1), 2 panic or bad flag
    failedStep,  \* the call site of main whose error made it exit ("" if none)
    issued,      \* the call sites that have handed a request to client.Do
    lastReq,     \* the last request handed to client.Do: site, method, headers
    cjResp,      \* createJobs: the response to the job-creation request
    i,           \* createJobs: loop counter
    requestID,   \* createJobs: parts[2] of the Location header
    task,        \* createJobs: the task the last successful fetch returned
    taskResp,    \* createJobs: what the last getAsyncTask got: sent, net, status, bodyOk
    sleeps,      \* createJobs: time.Sleep calls made
    fetches,     \* createJobs: getAsyncTask calls made
    ret,         \* createJobs: its return values (jobs, err)
    k,           \* main: index of the job the delete loop is at
    tfailed,     \* test: t.Error / t.Errorf / t.Fatalf was called
    tresp,       \* testPagination: the response map
    tlast,       \* testPagination: the body of the last response received
    titer        \* testOrdering: number of (field, direction) pairs done

vars == <<args, prog, pc, exitCode, failedStep, issued, lastReq, cjResp, i, requestID,
          task, taskResp, sleeps, fetches, ret, k, tfailed, tresp, tlast, titer>>

mainVars == <<exitCode, failedStep, cjResp, i, requestID, task, taskResp, sleeps, fetches, ret, k>>
cjVars == <<cjResp, i, requestID, task, taskResp, sleeps, fetches, ret>>
testVars == <<tfailed, tresp, tlast, titer>>

NoReq == [site |-> "none", method |-> "", headers |-> {}]
NoErr == [kind |-> "nil", msg |-> <<>>]
NoTask == [state |-> 0, output |-> <<>>]
NoJobResp == [net |-> FALSE, status |-> 0, body |-> <<>>, location |-> <<>>]
NoTaskResp == [sent |-> FALSE, net |-> FALSE, status |-> 0, bodyOk |-> FALSE]
NoRet == [jobs |-> <<>>, err |-> NoErr]
NoResp == [kind |-> "none"]

Err(kind, msg) == [kind |-> kind, msg |-> msg]

----------------------------------------------------------------------------
(* The CRUD wrappers. A response is what client.Do and io.ReadAll give:     *)
(* net (no transport error), the status, and whether the body decodes.      *)

Responses == [net : BOOLEAN, status : Statuses, bodyOk : BOOLEAN]

\* the request a wrapper builds
Request(method, withBody) ==
    [method |-> method,
     headers |-> AuthHeaders \cup (IF withBody THEN {ContentTypeHeader} ELSE {})]

\* wrappers that decode the body: error unless sent, expected status, decodable
DecodingCall(resp, expected) ==
    ~resp.net \/ resp.status # expected \/ ~resp.bodyOk

\* wrappers that only look at the status
StatusCall(resp, expected) ==
    ~resp.net \/ resp.status # expected

createCredentialReq == Request("POST", TRUE)
createCredential(resp) == DecodingCall(resp, StatusCreated)
getAllCredentialsReq == Request("GET", FALSE)
getAllCredentials(resp) == DecodingCall(resp, StatusOK)
updateCredentialReq == Request("PUT", TRUE)
updateCredential(resp) == StatusCall(resp, StatusOK)
deleteCredentialReq == Request("DELETE", FALSE)
deleteCredential(resp) == StatusCall(resp, StatusNoContent)
createProjectReq == Request("POST", TRUE)
createProject(resp) == DecodingCall(resp, StatusCreated)
getAllProjectsReq == Request("GET", FALSE)
getAllProjects(resp) == DecodingCall(resp, StatusOK)
updateProjectReq == Request("PUT", TRUE)
updateProject(resp) == StatusCall(resp, StatusOK)
deleteProjectReq == Request("DELETE", FALSE)
deleteProject(resp) == StatusCall(resp, StatusNoContent)
createJobsReq == Request("POST", TRUE)
getAsyncTaskReq == Request("GET", FALSE)
getAllJobsReq == Request("GET", FALSE)
getAllJobs(resp) == DecodingCall(resp, StatusOK)
updateJobReq == Request("PUT", TRUE)
updateJob(resp) == StatusCall(resp, StatusOK)
deleteJobReq == Request("DELETE", FALSE)
deleteJob(resp) == StatusCall(resp, StatusNoContent)

Sent(site, req) == [site |-> site, method |-> req.method, headers |-> req.headers]

----------------------------------------------------------------------------
(* main: one call site after the other, os.Exit(1) on the first error *)

\* the values a flag is given: none (the default ""), or one
FlagValues == {<<>>, <<"a">>}

\* the hosts: none, one that parses in a URL, one that does not
Hosts == {<<>>, <<"a">>, <<"%">>}

NoFlags == [apiKey |-> <<>>, apiSecret |-> <<>>, host |-> <<>>, accountID |-> <<>>]

\* the command lines of main: flag.Parse accepts it ("ok"), it asks for the
\* usage ("help"), or it has a flag that is not defined or has no value ("error")
MainArgs ==
    [parse : {"ok"}, apiKey : FlagValues, apiSecret : FlagValues,
     host : Hosts, accountID : FlagValues]
    \cup {[parse |-> p] @@ NoFlags : p \in {"help", "error"}}

\* flag.Parse on flag.CommandLine (ExitOnError), then the check of the four flags
MainFlags ==
    /\ prog = "main"
    /\ pc = "flags"
    /\ IF args.parse = "help"
       THEN pc' = "exit" /\ exitCode' = 0
       ELSE IF args.parse = "error"
       THEN pc' = "exit" /\ exitCode' = 2
       ELSE IF args.apiKey = <<>> \/ args.apiSecret = <<>>
               \/ args.host = <<>> \/ args.accountID = <<>>
       THEN pc' = "exit" /\ exitCode' = 1
       ELSE pc' = "createCredential" /\ UNCHANGED exitCode
    /\ UNCHANGED <<prog, args, failedStep, issued, lastReq, cjVars, k, testVars>>

\* MainCall without the os.Exit(1): the error is reported and main goes on
MainCallContinues(site, req, err, next) ==
    /\ prog = "main"
    /\ pc = site
    /\ IF NewRequestFails(URL(args.host, <<>>))
       THEN UNCHANGED <<lastReq, issued>>
       ELSE /\ lastReq' = Sent(site, req)
            /\ issued' = issued \cup {site}
    /\ pc' = next
    /\ IF err \/ NewRequestFails(URL(args.host, <<>>))
       THEN exitCode' = 1 /\ failedStep' = site
       ELSE UNCHANGED <<exitCode, failedStep>>
    /\ UNCHANGED <<prog, args, cjVars, k, testVars>>

\* a call site of main: the wrapper builds its request, which fails on a URL
\* that does not parse, and sends it; on error main prints and exits with 1,
\* otherwise it goes on to the next call site
MainCall(site, req, err, next) ==
    /\ prog = "main"
    /\ pc = site
    /\ IF NewRequestFails(URL(args.host, <<>>))
       THEN UNCHANGED <<lastReq, issued>>
       ELSE /\ lastReq' = Sent(site, req)
            /\ issued' = issued \cup {site}
    /\ IF err \/ NewRequestFails(URL(args.host, <<>>))
       THEN /\ pc' = "exit"
            /\ exitCode' = 1
            /\ failedStep' = site
       ELSE /\ pc' = next
            /\ UNCHANGED <<exitCode, failedStep>>
    /\ UNCHANGED <<prog, args, cjVars, k, testVars>>

MainCreateCredential ==
    \E resp \in Responses :
        MainCall("createCredential", createCredentialReq, createCredential(resp), "getAllCredentials")

MainGetAllCredentials ==
    \E resp \in Responses :
        MainCall("getAllCredentials", getAllCredentialsReq, getAllCredentials(resp), "updateCredential")

MainUpdateCredential ==
    \E resp \in Responses :
        MainCall("updateCredential", updateCredentialReq, updateCredential(resp), "deleteCredential")

MainDeleteCredential ==
    \E resp \in Responses :
        MainCall("deleteCredential", deleteCredentialReq, deleteCredential(resp), "createProject")

MainCreateProject ==
    \E resp \in Responses :
        MainCall("createProject", createProjectReq, createProject(resp), "getAllProjects")

MainGetAllProjects ==
    \E resp \in Responses :
        MainCall("getAllProjects", getAllProjectsReq, getAllProjects(resp), "updateProject")

MainUpdateProject ==
    \E resp \in Responses :
        MainCall("updateProject", updateProjectReq, updateProject(resp), "deleteProject")

MainDeleteProject ==
    \E resp \in Responses :
        MainCall("deleteProject", deleteProjectReq, deleteProject(resp), "createJobProject")

MainCreateJobProject ==
    \E resp \in Responses :
        MainCall("createJobProject", createProjectReq, createProject(resp), "createJobs")

----------------------------------------------------------------------------
(* createJobs *)

\* the two requests main submits, named by the job each asks for
JobRequests == <<1, 2>>

Bodies == {<<"body1">>, <<"body2">>}

JobResponses == [net : BOOLEAN, status : Statuses, body : Bodies, location : Locations]

\* LocationOf without the check for an empty header
LocationOfNoEmptyCheck(location) ==
    LET parts == Split(location) IN
    IF Len(parts) # 3
    THEN [err |-> Err("MalformedLocationHeader", location), requestID |-> <<>>]
    ELSE [err |-> NoErr, requestID |-> parts[3]]

\* the Location header: the error it gives, or the request ID taken from it
LocationOf(location) ==
    LET parts == Split(location) IN
    IF location = <<>>
    THEN [err |-> Err("MissingLocationHeader", <<>>), requestID |-> <<>>]
    ELSE IF Len(parts) # 3
    THEN [err |-> Err("MalformedLocationHeader", location), requestID |-> <<>>]
    ELSE [err |-> NoErr, requestID |-> parts[3]]

\* StatusOf taking every 2xx status for accepted
StatusOfAny2xx(r) ==
    IF r.status < 200 \/ r.status > 299
    THEN Err("UnexpectedStatus", r.body)
    ELSE NoErr

\* the status of the job-creation response: the error it gives, if any
StatusOf(r) ==
    IF r.status # StatusAccepted
    THEN Err("UnexpectedStatus", r.body)
    ELSE NoErr

\* createJobs returns to main
Return(jobs, err) ==
    /\ ret' = [jobs |-> jobs, err |-> err]
    /\ pc' = "createJobsReturned"

\* from the call to the start of the polling loop
CreateJobsSubmit ==
    /\ prog = "main"
    /\ pc = "createJobs"
    /\ IF NewRequestFails(URL(args.host, <<>>))
       THEN UNCHANGED <<lastReq, issued>>
       ELSE /\ lastReq' = Sent("createJobs", createJobsReq)
            /\ issued' = issued \cup {"createJobs"}
    /\ \E r \in JobResponses :
        LET loc == LocationOf(r.location) IN
        /\ cjResp' = IF NewRequestFails(URL(args.host, <<>>)) THEN NoJobResp ELSE r
        /\ IF NewRequestFails(URL(args.host, <<>>))
           THEN Return(<<>>, Err("Request", <<>>)) /\ UNCHANGED <<i, requestID>>
           ELSE IF ~r.net
           THEN Return(<<>>, Err("Transport", <<>>)) /\ UNCHANGED <<i, requestID>>
           ELSE IF StatusOf(r).kind # "nil"
           THEN Return(<<>>, StatusOf(r)) /\ UNCHANGED <<i, requestID>>
           ELSE IF loc.err.kind # "nil"
           THEN Return(<<>>, loc.err) /\ UNCHANGED <<i, requestID>>
           ELSE /\ requestID' = loc.requestID
                /\ i' = 0
                /\ pc' = "poll"
                /\ UNCHANGED ret
    /\ UNCHANGED <<prog, args, exitCode, failedStep, task, taskResp, sleeps, fetches, k, testVars>>

\* The async-task resource answers a fetch. The server sends any state code
\* from 0 to MaxState; Output is read by createJobs only in states 2 and 3,
\* so it is left empty in the other states.
TaskStates == 0..MaxState

OutputsIn(st) == IF st \in {2, 3} THEN Outputs ELSE {<<>>}

PollResponses ==
    {[net |-> FALSE, status |-> StatusOK, bodyOk |-> TRUE, state |-> 0, output |-> <<>>]}
    \cup {[net |-> TRUE, status |-> s, bodyOk |-> TRUE, state |-> 0, output |-> <<>>] :
              s \in Statuses \ {StatusOK}}
    \cup {[net |-> TRUE, status |-> StatusOK, bodyOk |-> FALSE, state |-> 0, output |-> <<>>]}
    \cup UNION {{[net |-> TRUE, status |-> StatusOK, bodyOk |-> TRUE, state |-> st, output |-> o] :
                    o \in OutputsIn(st)} : st \in TaskStates}

\* getAsyncTask without the check of the status
getAsyncTaskAnyStatus(id, r) ==
    IF NewRequestFails(URL(args.host, id))
    THEN [sent |-> FALSE, err |-> TRUE, task |-> NoTask]
    ELSE IF ~r.net \/ ~r.bodyOk
    THEN [sent |-> TRUE, err |-> TRUE, task |-> NoTask]
    ELSE [sent |-> TRUE, err |-> FALSE, task |-> [state |-> r.state, output |-> r.output]]

\* getAsyncTask for the request ID id, r being what the server answers when
\* asked: the request is not sent when its URL does not parse
getAsyncTask(id, r) ==
    IF NewRequestFails(URL(args.host, id))
    THEN [sent |-> FALSE, err |-> TRUE, task |-> NoTask]
    ELSE IF DecodingCall(r, StatusOK)
    THEN [sent |-> TRUE, err |-> TRUE, task |-> NoTask]
    ELSE [sent |-> TRUE, err |-> FALSE, task |-> [state |-> r.state, output |-> r.output]]

\* AfterLoop returning no error
AfterLoopNil == [jobs |-> <<>>, err |-> NoErr]

\* what createJobs returns when the loop ends without a return
AfterLoop == [jobs |-> <<>>, err |-> Err("Timeout", <<>>)]

\* Switch losing the output of a failed task
SwitchDropsMessage(t) ==
    IF t.state = 2
    THEN LET d == UnmarshalJobs(t.output) IN
         IF d.err
         THEN [do |-> "return", jobs |-> <<>>, err |-> Err("DecodeError", <<>>)]
         ELSE [do |-> "return", jobs |-> d.jobs, err |-> NoErr]
    ELSE IF t.state = 3
    THEN [do |-> "return", jobs |-> <<>>, err |-> Err("OperationFailed", <<>>)]
    ELSE IF t.state \in {0, 1}
    THEN [do |-> "continue", jobs |-> <<>>, err |-> NoErr]
    ELSE [do |-> "return", jobs |-> <<>>, err |-> Err("UnknownState", <<t.state>>)]

\* Switch that keeps polling a failed task
SwitchPollsOnAfterFailed(t) ==
    IF t.state = 2
    THEN LET d == UnmarshalJobs(t.output) IN
         IF d.err
         THEN [do |-> "return", jobs |-> <<>>, err |-> Err("DecodeError", <<>>)]
         ELSE [do |-> "return", jobs |-> d.jobs, err |-> NoErr]
    ELSE IF t.state \in {0, 1, 3}
    THEN [do |-> "continue", jobs |-> <<>>, err |-> NoErr]
    ELSE [do |-> "return", jobs |-> <<>>, err |-> Err("UnknownState", <<t.state>>)]

\* what one iteration does with the task it fetched: "return" with the
\* values returned, or "continue"
Switch(t) ==
    IF t.state = 2
    THEN LET d == UnmarshalJobs(t.output) IN
         IF d.err
         THEN [do |-> "return", jobs |-> <<>>, err |-> Err("DecodeError", <<>>)]
         ELSE [do |-> "return", jobs |-> d.jobs, err |-> NoErr]
    ELSE IF t.state = 3
    THEN [do |-> "return", jobs |-> <<>>, err |-> Err("OperationFailed", t.output)]
    ELSE IF t.state \in {0, 1}
    THEN [do |-> "continue", jobs |-> <<>>, err |-> NoErr]
    ELSE [do |-> "return", jobs |-> <<>>, err |-> Err("UnknownState", <<t.state>>)]

\* Sleep only between two attempts, not before the first
SleepBetween == sleeps' = IF i = 0 THEN sleeps ELSE sleeps + 1

\* time.Sleep(time.Second), the first statement of every iteration
Sleep == sleeps' = sleeps + 1

\* an iteration of the polling loop begins: createJobs waits in time.Sleep
\* for a second; the task is not asked for before the sleep has ended
CreateJobsSleep ==
    /\ prog = "main"
    /\ pc = "poll"
    /\ i < MaxAttempts
    /\ Sleep
    /\ pc' = "fetch"
    /\ UNCHANGED <<prog, args, exitCode, failedStep, issued, lastReq, cjResp, i,
                   requestID, task, taskResp, fetches, ret, k, testVars>>

\* the rest of the iteration: the fetch, answered by the server after the
\* sleep, and the switch; the iteration that ends the loop (i reaches
\* MaxAttempts) returns the timeout
CreateJobsFetch ==
    /\ prog = "main"
    /\ pc = "fetch"
    /\ fetches' = fetches + 1
    /\ \E r \in PollResponses :
        LET got == getAsyncTask(requestID, r) IN
        /\ IF got.sent
           THEN /\ lastReq' = Sent("getAsyncTask", getAsyncTaskReq)
                /\ issued' = issued \cup {"getAsyncTask"}
                /\ taskResp' = [sent |-> TRUE, net |-> r.net, status |-> r.status,
                                bodyOk |-> r.bodyOk]
           ELSE /\ taskResp' = NoTaskResp
                /\ UNCHANGED <<lastReq, issued>>
        /\ IF got.err
           THEN /\ Return(<<>>, Err("PollFetchError", <<>>))
                /\ UNCHANGED <<i, task>>
           ELSE LET sw == Switch(got.task) IN
             /\ task' = got.task
             /\ IF sw.do = "return"
                THEN Return(sw.jobs, sw.err) /\ UNCHANGED i
                ELSE /\ i' = i + 1
                     /\ IF i + 1 < MaxAttempts
                        THEN pc' = "poll" /\ UNCHANGED ret
                        ELSE Return(AfterLoop.jobs, AfterLoop.err)
    /\ UNCHANGED <<prog, args, exitCode, failedStep, cjResp, requestID, sleeps, k, testVars>>

\* main looks at what createJobs returned; the locals of createJobs are gone,
\* only the returned values are left
MainAfterCreateJobs ==
    /\ prog = "main"
    /\ pc = "createJobsReturned"
    /\ IF ret.err.kind # "nil"
       THEN /\ pc' = "exit"
            /\ exitCode' = 1
            /\ failedStep' = "createJobs"
       ELSE /\ pc' = "getAllJobs"
            /\ UNCHANGED <<exitCode, failedStep>>
    /\ cjResp' = NoJobResp
    /\ i' = 0
    /\ requestID' = <<>>
    /\ task' = NoTask
    /\ taskResp' = NoTaskResp
    /\ sleeps' = 0
    /\ fetches' = 0
    /\ UNCHANGED <<prog, args, issued, lastReq, ret, k, testVars>>

----------------------------------------------------------------------------
(* main, after the jobs are created *)

MainGetAllJobs ==
    \E resp \in Responses :
        MainCall("getAllJobs", getAllJobsReq, getAllJobs(resp), "updateJob")

\* jobs[0].ID is evaluated before updateJob is called: with no job returned
\* the index is out of range and main panics
MainUpdateJob ==
    IF Len(ret.jobs) = 0
    THEN /\ prog = "main"
         /\ pc = "updateJob"
         /\ pc' = "panic"
         /\ exitCode' = 2
         /\ UNCHANGED <<prog, args, failedStep, issued, lastReq, cjVars, k, testVars>>
    ELSE \E resp \in Responses :
            MainCall("updateJob", updateJobReq, updateJob(resp), "deleteJob")

\* one iteration of the delete loop
MainDeleteJob ==
    /\ prog = "main"
    /\ pc = "deleteJob"
    /\ IF NewRequestFails(URL(args.host, <<>>))
       THEN UNCHANGED <<lastReq, issued>>
       ELSE /\ lastReq' = Sent("deleteJob", deleteJobReq)
            /\ issued' = issued \cup {"deleteJob"}
    /\ \E resp \in Responses :
        IF deleteJob(resp) \/ NewRequestFails(URL(args.host, <<>>))
        THEN /\ pc' = "exit"
             /\ exitCode' = 1
             /\ failedStep' = "deleteJob"
             /\ UNCHANGED k
        ELSE /\ k' = k + 1
             /\ pc' = IF k + 1 > Len(ret.jobs) THEN "deleteJobProject" ELSE "deleteJob"
             /\ UNCHANGED <<exitCode, failedStep>>
    /\ UNCHANGED <<prog, args, cjVars, testVars>>

MainDeleteJobProject ==
    \E resp \in Responses :
        MainCall("deleteJobProject", deleteProjectReq, deleteProject(resp), "done")

\* main returns: the process ends with status 0
MainDone ==
    /\ prog = "main"
    /\ pc = "done"
    /\ pc' = "exit"
    /\ exitCode' = 0
    /\ UNCHANGED <<prog, args, failedStep, issued, lastReq, cjVars, k, testVars>>

MainNext ==
    \/ MainFlags
    \/ MainCreateCredential
    \/ MainGetAllCredentials
    \/ MainUpdateCredential
    \/ MainDeleteCredential
    \/ MainCreateProject
    \/ MainGetAllProjects
    \/ MainUpdateProject
    \/ MainDeleteProject
    \/ MainCreateJobProject
    \/ CreateJobsSubmit
    \/ CreateJobsSleep
    \/ CreateJobsFetch
    \/ MainAfterCreateJobs
    \/ MainGetAllJobs
    \/ MainUpdateJob
    \/ MainDeleteJob
    \/ MainDeleteJobProject
    \/ MainDone

----------------------------------------------------------------------------
(* testGetAllCredentials: testPagination, then testOrdering.                *)
(* A response body is not JSON / not a JSON object ("invalid"), the JSON    *)
(* value null, or a JSON object; of an object the model keeps the members   *)
(* "data" and "pagination", the only ones the checks read.                  *)

\* the custom pagination asked for: limit=5&offset=0
PageLimit == 5
PageOffset == 0

\* the request both checks build: http.NewRequest("GET", url, nil), no header set
testReq == [method |-> "GET", headers |-> {}]

\* a JSON member value as interface{}: absent, a string, or a number (float64)
Member(kind, v) == [kind |-> kind, v |-> v]
PageMembers ==
    {Member("absent", 0), Member("string", PageLimit)}
    \cup {Member("number", v) : v \in {PageOffset, PageLimit, 2 * PageLimit}}

\* the "pagination" member: absent, null, a non-object, or an object
NoPagination(kind) == [kind |-> kind, limit |-> Member("absent", 0), offset |-> Member("absent", 0)]
Paginations ==
    {NoPagination(kd) : kd \in {"absent", "null", "string"}}
    \cup {[kind |-> "object", limit |-> l, offset |-> o] : l \in PageMembers, o \in PageMembers}

\* the "data" member as testPagination sees it: it reads no part of it
NoItem == Member("absent", 0)
DataOf(kind, n, a, b) == [kind |-> kind, n |-> n, item1 |-> a, item2 |-> b]
PageDatas ==
    {DataOf(kd, 0, NoItem, NoItem) : kd \in {"absent", "null"}}
    \cup {DataOf("array", n, NoItem, NoItem) : n \in 0..MaxRecords}

Body(kind, data, pagination) == [kind |-> kind, data |-> data, pagination |-> pagination]
NoBody(kind) == Body(kind, DataOf("absent", 0, NoItem, NoItem), NoPagination("absent"))

PageBodies ==
    {NoBody("invalid"), NoBody("null")}
    \cup {Body("object", d, pg) : d \in PageDatas, pg \in Paginations}

\* what client.Do gives a check: a transport error, or a status and a body
TestResponses(bodies) ==
    {[net |-> FALSE, status |-> StatusOK, body |-> NoBody("invalid")]}
    \cup {[net |-> TRUE, status |-> s, body |-> NoBody("invalid")] : s \in Statuses \ {StatusOK}}
    \cup {[net |-> TRUE, status |-> StatusOK, body |-> b] : b \in bodies}

\* json Decode(&response) into the map response already holds: null sets the
\* map to nil; an object sets its members and keeps the other entries
Decode(old, body) ==
    IF body.kind = "null" THEN [kind |-> "nil"]
    ELSE IF old.kind # "map" THEN
        [kind |-> "map", data |-> body.data, pagination |-> body.pagination]
    ELSE [kind |-> "map",
          data |-> IF body.data.kind = "absent" THEN old.data ELSE body.data,
          pagination |-> IF body.pagination.kind = "absent" THEN old.pagination
                         ELSE body.pagination]

\* _, ok := response[key]
HasData(m) == m.kind = "map" /\ m.data.kind # "absent"
HasPagination(m) == m.kind = "map" /\ m.pagination.kind # "absent"

\* v, ok := x.(float64); !ok || v != want
NotNumber(x, want) == x.kind # "number" \/ x.v # want

\* PaginationParamsWrong without the check of the offset
PaginationParamsWrongLimitOnly(m) ==
    IF ~(m.kind = "map" /\ m.pagination.kind = "object") THEN TRUE
    ELSE NotNumber(m.pagination.limit, PageLimit)

\* the checks after the second decode report an error
PaginationParamsWrong(m) ==
    IF ~(m.kind = "map" /\ m.pagination.kind = "object") THEN TRUE
    ELSE NotNumber(m.pagination.limit, PageLimit) \/ NotNumber(m.pagination.offset, PageOffset)

\* what the test is called with: baseURL (in args.host) and accountId
TestArgs ==
    {[parse |-> "ok", apiKey |-> <<>>, apiSecret |-> <<>>, host |-> h,
      accountID |-> <<"a">>] : h \in Hosts}

\* t.Fatalf: the test is marked failed and its goroutine ends
Fatalf ==
    /\ tfailed' = TRUE
    /\ pc' = "testEnd"

\* testPagination up to the second request: the default-pagination call
TestPaginationDefault ==
    /\ prog = "test"
    /\ pc = "testPagination"
    /\ IF NewRequestFails(URL(args.host, <<>>))
       THEN UNCHANGED <<lastReq, issued>>
       ELSE /\ lastReq' = Sent("testPagination", testReq)
            /\ issued' = issued \cup {"testPagination"}
    /\ \E resp \in TestResponses(PageBodies) :
        IF NewRequestFails(URL(args.host, <<>>)) \/ ~resp.net
        THEN Fatalf /\ UNCHANGED <<tresp, tlast>>
        ELSE IF resp.status # StatusOK
        THEN /\ tfailed' = TRUE
             /\ pc' = "testPaginationReturned"
             /\ UNCHANGED <<tresp, tlast>>
        ELSE IF resp.body.kind = "invalid"
        THEN Fatalf /\ tlast' = resp.body /\ UNCHANGED tresp
        ELSE LET m == Decode(tresp, resp.body) IN
             /\ tresp' = m
             /\ tlast' = resp.body
             /\ tfailed' = (tfailed \/ ~HasData(m) \/ ~HasPagination(m))
             /\ pc' = "testPaginationCustom"
    /\ UNCHANGED <<prog, args, mainVars, titer>>

\* testPagination from the second request on: limit=5&offset=0
TestPaginationCustom ==
    /\ prog = "test"
    /\ pc = "testPaginationCustom"
    /\ IF NewRequestFails(URL(args.host, <<>>))
       THEN UNCHANGED <<lastReq, issued>>
       ELSE /\ lastReq' = Sent("testPaginationCustom", testReq)
            /\ issued' = issued \cup {"testPaginationCustom"}
    /\ \E resp \in TestResponses(PageBodies) :
        IF NewRequestFails(URL(args.host, <<>>)) \/ ~resp.net
        THEN Fatalf /\ UNCHANGED <<tresp, tlast>>
        ELSE IF resp.status # StatusOK
        THEN /\ tfailed' = TRUE
             /\ pc' = "testPaginationReturned"
             /\ UNCHANGED <<tresp, tlast>>
        ELSE IF resp.body.kind = "invalid"
        THEN Fatalf /\ tlast' = resp.body /\ UNCHANGED tresp
        ELSE LET m == Decode(tresp, resp.body) IN
             /\ tresp' = m
             /\ tlast' = resp.body
             /\ tfailed' = (tfailed \/ PaginationParamsWrong(m))
             /\ pc' = "testPaginationReturned"
    /\ UNCHANGED <<prog, args, mainVars, titer>>

\* testGetAllCredentials goes on to testOrdering; testPagination's locals are gone
TestGetAllCredentialsOrdering ==
    /\ prog = "test"
    /\ pc = "testPaginationReturned"
    /\ pc' = "testOrdering"
    /\ tresp' = NoResp
    /\ tlast' = NoResp
    /\ UNCHANGED <<prog, args, mainVars, issued, lastReq, tfailed, titer>>

orderByFields == <<"date_created", "date_modified", "created_by", "modified_by", "deleted_by">>
directions == <<"asc", "desc">>
OrderingRuns == Len(orderByFields) * Len(directions)
DirectionAt(n) == directions[(n % Len(directions)) + 1]

\* an item's value of the ordered field: the item is no object, the field is
\* absent, null, a string, or a number
ItemMembers ==
    {Member(kd, 0) : kd \in {"nonobject", "absent", "null", "string"}}
    \cup {Member("number", v) : v \in {1, 2}}

OrderDatas ==
    {DataOf(kd, 0, NoItem, NoItem) : kd \in {"absent", "null"}}
    \cup {DataOf("array", n, NoItem, NoItem) : n \in 0..1}
    \cup {DataOf("array", n, a, b) : n \in 2..MaxRecords, a \in ItemMembers, b \in ItemMembers}

OrderBodies ==
    {NoBody("invalid"), NoBody("null")}
    \cup {Body("object", d, NoPagination(pk)) : d \in OrderDatas, pk \in {"absent", "null"}}

\* the comparison of the first two items: "skip" (not compared), "panic" (a
\* failed type assertion), "error" (wrong order) or "ok"
CompareItems(d, direction) ==
    LET a == d.item1
        b == d.item2 IN
    IF d.n <= 1 THEN "skip"
    ELSE IF a.kind = "nonobject" \/ b.kind = "nonobject" THEN "skip"
    ELSE IF a.kind = "absent" \/ b.kind = "absent" THEN "skip"
    ELSE IF a.kind = "string" THEN "panic"
    ELSE IF a.kind = "number" THEN
        IF b.kind # "number" THEN "panic"
        ELSE IF direction = "asc" THEN (IF a.v > b.v THEN "error" ELSE "ok")
        ELSE (IF a.v < b.v THEN "error" ELSE "ok")
    ELSE "panic"

\* one (field, direction) pair of testOrdering
TestOrdering ==
    /\ prog = "test"
    /\ pc = "testOrdering"
    /\ titer < OrderingRuns
    /\ IF NewRequestFails(URL(args.host, <<>>))
       THEN UNCHANGED <<lastReq, issued>>
       ELSE /\ lastReq' = Sent("testOrdering", testReq)
            /\ issued' = issued \cup {"testOrdering"}
    /\ \E resp \in TestResponses(OrderBodies) :
        LET m == Decode(NoResp, resp.body)
            more == IF titer + 1 < OrderingRuns THEN "testOrdering" ELSE "testEnd" IN
        IF NewRequestFails(URL(args.host, <<>>)) \/ ~resp.net
        THEN Fatalf /\ UNCHANGED <<titer, exitCode>>
        ELSE IF resp.status # StatusOK \/ resp.body.kind = "invalid"
        THEN /\ tfailed' = TRUE
             /\ titer' = titer + 1
             /\ pc' = more
             /\ UNCHANGED exitCode
        ELSE IF ~(m.kind = "map" /\ m.data.kind = "array")
        THEN /\ tfailed' = TRUE
             /\ titer' = titer + 1
             /\ pc' = more
             /\ UNCHANGED exitCode
        ELSE LET c == CompareItems(m.data, DirectionAt(titer)) IN
             /\ tfailed' = (tfailed \/ ~HasPagination(m) \/ c = "error")
             /\ IF c = "panic"
                THEN pc' = "panic" /\ exitCode' = 2 /\ UNCHANGED titer
                ELSE pc' = more /\ titer' = titer + 1 /\ UNCHANGED exitCode
    /\ UNCHANGED <<prog, args, failedStep, cjVars, k, tresp, tlast>>

TestNext ==
    \/ TestPaginationDefault
    \/ TestPaginationCustom
    \/ TestGetAllCredentialsOrdering
    \/ TestOrdering

----------------------------------------------------------------------------

Init ==
    /\ prog \in {"main", "test"}
    /\ args \in (IF prog = "main" THEN MainArgs ELSE TestArgs)
    /\ pc = IF prog = "main" THEN "flags" ELSE "testPagination"
    /\ exitCode = 0 - 1
    /\ failedStep = ""
    /\ issued = {}
    /\ lastReq = NoReq
    /\ cjResp = NoJobResp
    /\ i = 0
    /\ requestID = <<>>
    /\ task = NoTask
    /\ taskResp = NoTaskResp
    /\ sleeps = 0
    /\ fetches = 0
    /\ ret = NoRet
    /\ k = 1
    /\ tfailed = FALSE
    /\ tresp = NoResp
    /\ tlast = NoResp
    /\ titer = 0

Next ==
    \/ MainNext
    \/ TestNext

Spec == Init /\ [][Next]_vars

----------------------------------------------------------------------------
(* Properties *)

\* the job a token of an output array decodes to
JobOf(tok) == IF tok = "j1" THEN 1 ELSE IF tok = "j2" THEN 2 ELSE 0
JobsOf(es) == [n \in 1..Len(es) |-> JobOf(es[n])]

Returned == prog = "main" /\ pc = "createJobsReturned"
Accepted == cjResp.net /\ cjResp.status = StatusAccepted

\* C1 as stated: whenever polling ends in Success, createJobs returns without
\* error the job list decoded from the final output.
C1_AlwaysDecodes ==
    (Returned /\ task.state = 2) =>
        (ret.err.kind = "nil" /\ ret.jobs = UnmarshalJobs(task.output).jobs)

\* C1 amended: when polling ends in Success, an output that is a JSON array of
\* job records (or nulls) is returned, without error, as the list of its
\* elements; the output null is returned as the empty list; every other
\* output gives DecodeError and no job list.
C1_SuccessReturnsDecoded ==
    (Returned /\ task.state = 2) =>
        /\ \A es \in SeqsUpTo(ElemTokens, MaxJobs) :
              task.output = ArrayOf(es) => ret = [jobs |-> JobsOf(es), err |-> NoErr]
        /\ task.output = <<"null">> => ret = NoRet
        /\ task.output \notin (ArrayOutputs \cup {<<"null">>}) =>
              (ret.err.kind = "DecodeError" /\ ret.jobs = <<>>)

C1_Witness ==
    /\ Returned /\ task.state = 2 /\ fetches = 2
    /\ task.output = ArrayOf(<<"j2", "null">>)
    /\ ret.jobs = <<2, 0>>

\* C2: when polling ends in Failed, createJobs returns the OperationFailed
\* error whose message is the output of that final poll, and no job list.
C2_FailedCarriesOutput ==
    (Returned /\ task.state = 3) =>
        (ret.err = Err("OperationFailed", task.output) /\ ret.jobs = <<>>)

C2_Witness ==
    /\ Returned /\ task.state = 3 /\ fetches = 3
    /\ task.output = <<"j1", "]">>
    /\ ret.err.kind = "OperationFailed"

\* C3 as stated: if none of the 30 polls observes Success or Failed,
\* createJobs returns Timeout.
C3_NoTerminalIsTimeout ==
    (Returned /\ fetches = MaxAttempts /\ task.state \notin {2, 3}) =>
        ret.err.kind = "Timeout"

\* C3 amended: if every one of the 30 polls observes NotStarted or InProgress
\* (each fetch succeeds and the loop continues 30 times), createJobs returns
\* Timeout and no job list.
C3_AllPendingIsTimeout ==
    (Returned /\ fetches = MaxAttempts /\ i = MaxAttempts) =>
        (ret.err.kind = "Timeout" /\ ret.jobs = <<>>)

C3_Witness ==
    /\ Returned /\ fetches = MaxAttempts /\ i = MaxAttempts
    /\ task.state = 1
    /\ ret.err.kind = "Timeout"

\* C4: an accepted response whose Location header is empty makes createJobs
\* return MissingLocationHeader and no job list, without any poll.
C4_MissingLocation ==
    (prog = "main" /\ Accepted /\ cjResp.location = <<>>) =>
        /\ pc = "createJobsReturned"
        /\ ret.err.kind = "MissingLocationHeader"
        /\ ret.jobs = <<>>
        /\ fetches = 0
        /\ "getAsyncTask" \notin issued

C4_Witness ==
    /\ Returned /\ Accepted /\ cjResp.location = <<>>
    /\ ret.err.kind = "MissingLocationHeader"

\* /{resource}/{requestId}: a leading slash, one more slash, both parts non-empty
WellShaped(loc) ==
    LET slashes == {p \in 1..Len(loc) : loc[p] = "/"} IN
    /\ Cardinality(slashes) = 2
    /\ 1 \in slashes
    /\ 2 \notin slashes
    /\ Len(loc) \notin slashes

\* C5: every non-empty Location value that is not of the shape
\* /{resource}/{requestId} makes createJobs fail with MalformedLocationHeader,
\* and only values of that shape proceed to polling.
C5_OnlyWellShapedPolls ==
    (prog = "main" /\ Accepted /\ cjResp.location # <<>>) =>
        IF WellShaped(cjResp.location)
        THEN ret.err.kind # "MalformedLocationHeader"
        ELSE pc = "createJobsReturned" /\ ret.err.kind = "MalformedLocationHeader"

\* the element tokens of an output array, in order
ElemsOf(out) == SelectSeq(out, LAMBDA tok : tok \in ElemTokens)

\* C6 as stated: when polling ends in Success and createJobs returns a job
\* list, the list has one record per submitted request, in the order of the
\* requests.
C6_OnePerRequest ==
    (Returned /\ task.state = 2 /\ ret.err.kind = "nil") => ret.jobs = JobRequests

\* C6 amended: when polling ends in Success and the output decodes, createJobs
\* returns one record per element of the output array, in the array's order;
\* that is one record per request in request order exactly when the output
\* lists them so.
C6_OnePerOutputElement ==
    (Returned /\ task.state = 2 /\ ret.err.kind = "nil") =>
        /\ Len(ret.jobs) = (IF task.output[1] = "[" THEN Len(ElemsOf(task.output)) ELSE 0)
        /\ \A n \in 1..Len(ret.jobs) : ret.jobs[n] = JobOf(ElemsOf(task.output)[n])
        /\ ret.jobs = JobRequests <=> task.output = ArrayOf(<<"j1", "j2">>)

C6_Witness ==
    /\ Returned /\ task.state = 2 /\ fetches = 4
    /\ task.output = ArrayOf(<<"j1", "j2">>)
    /\ ret.jobs = JobRequests

TestPassed == prog = "test" /\ pc = "testPaginationReturned" /\ ~tfailed
PageOK(pg) ==
    /\ pg.kind = "object"
    /\ pg.limit = Member("number", PageLimit)
    /\ pg.offset = Member("number", PageOffset)

\* C7 as stated: testPagination passes only if the response to the
\* limit=5&offset=0 call has exactly 5 records and the pagination block
\* limit=5, offset=0.
C7_PassNeedsFiveRecords ==
    TestPassed =>
        /\ tlast.kind = "object"
        /\ tlast.data.kind = "array"
        /\ tlast.data.n = PageLimit
        /\ PageOK(tlast.pagination)

\* C7 amended: testPagination passes only if the response map after the
\* second decode has a data member and a pagination block with limit=5 and
\* offset=0, the block being that of the limit=5&offset=0 response unless
\* that response has none (then the one left from the first response); the
\* number of records is not checked.
C7_PassNeedsPagination ==
    TestPassed =>
        /\ tresp.kind = "map"
        /\ HasData(tresp)
        /\ PageOK(tresp.pagination)
        /\ tlast.kind = "object"
        /\ tlast.pagination.kind = "absent" \/ PageOK(tlast.pagination)

C7_Witness ==
    /\ TestPassed
    /\ PageOK(tlast.pagination)
    /\ tlast.data.kind = "array"
    /\ tlast.data.n = PageLimit

\* C8: every request handed to the HTTP client carries the API key, the API
\* secret and the account identifier headers.
C8_AllRequestsAuthenticated ==
    lastReq.site # "none" => AuthHeaders \subseteq lastReq.headers

\* the call sites of main in program order
SiteOrder ==
    <<"createCredential", "getAllCredentials", "updateCredential", "deleteCredential",
      "createProject", "getAllProjects", "updateProject", "deleteProject",
      "createJobProject", "createJobs", "getAsyncTask", "getAllJobs", "updateJob",
      "deleteJob", "deleteJobProject">>
SiteIndex(site) == CHOOSE n \in 1..Len(SiteOrder) : SiteOrder[n] = site
\* the last call site a failed step of main can have issued a request from
LastSiteOf(step) == IF step = "createJobs" THEN "getAsyncTask" ELSE step

\* C9, the state after a failure exit: main is at its exit, every request was
\* issued by the failed step or an earlier one, and the resource a failed step
\* leaves behind has no delete issued for it.
C9_ExitState ==
    (prog = "main" /\ exitCode = 1) =>
        /\ pc = "exit"
        /\ \A s \in issued : SiteIndex(s) <= SiteIndex(LastSiteOf(failedStep))
        /\ failedStep \in {"createJobs", "getAllJobs", "updateJob", "deleteJob"} =>
              ("createJobProject" \in issued /\ "deleteJobProject" \notin issued)
        /\ failedStep \in {"getAllProjects", "updateProject"} =>
              ("createProject" \in issued /\ "deleteProject" \notin issued)
        /\ failedStep \in {"getAllCredentials", "updateCredential"} =>
              ("createCredential" \in issued /\ "deleteCredential" \notin issued)

\* C9: in main's CRUD sequence the first step that returns an error ends the
\* process with exit status 1: the next thing main does after an error from
\* createJobs is to exit, after the exit no request is issued, and no delete
\* is issued for what earlier steps created.
C9_ExitOnFirstError ==
    /\ []C9_ExitState
    /\ [][(Returned /\ ret.err.kind # "nil") =>
             (pc' = "exit" /\ exitCode' = 1 /\ issued' = issued)]_vars
    /\ [][exitCode = 1 => (issued' = issued /\ lastReq' = lastReq)]_vars

C9_Witness ==
    /\ prog = "main" /\ exitCode = 1 /\ failedStep = "createJobs"
    /\ ret.err.kind = "OperationFailed"
    /\ "createJobProject" \in issued
    /\ "deleteJobProject" \notin issued

\* a step of the polling loop whose fetch returned a task
Observes == fetches' = fetches + 1 /\ ret'.err.kind # "PollFetchError"

\* C10 as stated: no poll observes a state lower than the state an earlier
\* poll of the same call observed.
C10_Monotonic ==
    [][(fetches >= 1 /\ Observes) => task'.state >= task.state]_vars

\* C10 amended: no state is observed after Success or Failed: a poll is made
\* only while every earlier poll of the call observed NotStarted or
\* InProgress (the loop counter counts them); between those polls the
\* observed state may go down as well as up.
C10_NoPollAfterTerminal ==
    [][fetches' = fetches + 1 =>
          (pc = "fetch" /\ (fetches = 0 \/ task.state \in {0, 1}) /\ i = fetches)]_vars

C10_Witness ==
    /\ Returned /\ task.state = 3 /\ fetches = 3 /\ i = 2

InCreateJobs == prog = "main" /\ pc \in {"poll", "fetch", "createJobsReturned"}

\* C11 as stated, a 2xx accepted status being any status from 200 to 299:
\* a response with another status fails with UnexpectedStatus carrying the
\* body, without polling, and a response with a 2xx status proceeds to the
\* Location header.
C11_Any2xxProceeds ==
    (InCreateJobs /\ cjResp.net) =>
        IF cjResp.status \in 200..299
        THEN ret.err.kind # "UnexpectedStatus"
        ELSE /\ pc = "createJobsReturned"
             /\ ret = [jobs |-> <<>>, err |-> Err("UnexpectedStatus", cjResp.body)]
             /\ fetches = 0

\* C11 amended: createJobs fails with UnexpectedStatus carrying the response
\* body whenever the status is not 202 Accepted, the other 2xx statuses (200,
\* 201, 204) included, whatever the Location header is and without any poll;
\* a response with status 202 proceeds to the Location header: it polls, or
\* returns the error the header gives.
C11_Only202Proceeds ==
    (InCreateJobs /\ cjResp.net) =>
        IF cjResp.status = StatusAccepted
        THEN \/ pc \in {"poll", "fetch"}
             \/ fetches >= 1
             \/ ret.err.kind \in {"MissingLocationHeader", "MalformedLocationHeader"}
        ELSE /\ pc = "createJobsReturned"
             /\ ret = [jobs |-> <<>>, err |-> Err("UnexpectedStatus", cjResp.body)]
             /\ fetches = 0
             /\ "getAsyncTask" \notin issued

C11_Witness ==
    /\ Returned /\ cjResp.net
    /\ cjResp.status = StatusOK
    /\ cjResp.location = <<"/", "a", "/", "a">>
    /\ ret.err = Err("UnexpectedStatus", <<"body2">>)

\* the outputs that are a JSON array of job records
RecordArrays == {ArrayOf(es) : es \in SeqsUpTo({"j1", "j2"}, MaxJobs)}

\* C12: when a poll observes Success, createJobs returns a job list only if
\* the output is a JSON array of job records; for every other output (the
\* empty string and the JSON value null included) it fails with DecodeError.
C12_OnlyRecordArraysDecode ==
    (Returned /\ task.state = 2) =>
        IF task.output \in RecordArrays
        THEN ret.err.kind = "nil"
        ELSE ret.err.kind = "DecodeError" /\ ret.jobs = <<>>

\* the last fetch failed: a request that could not be built, a transport
\* error, a status other than 200, or a body that does not decode
FetchFailed ==
    ~taskResp.sent \/ ~taskResp.net \/ taskResp.status # StatusOK \/ ~taskResp.bodyOk

\* C13: a poll fetch that fails makes createJobs return PollFetchError at
\* that attempt, whatever the earlier polls observed: it has returned, with no
\* job list, having made one fetch more than the polls that let the loop go
\* on, so no further poll is issued and the rest of the budget is not used.
C13_FetchErrorAborts ==
    (prog = "main" /\ fetches >= 1 /\ FetchFailed) =>
        /\ pc = "createJobsReturned"
        /\ ret = [jobs |-> <<>>, err |-> Err("PollFetchError", <<>>)]
        /\ fetches = i + 1

C13_Witness ==
    /\ Returned /\ FetchFailed
    /\ taskResp.net /\ taskResp.status # StatusOK
    /\ fetches = 3 /\ task.state = 1
    /\ ret.err.kind = "PollFetchError"

\* the last poll let the loop go on: it was fetched and its state is
\* NotStarted (0) or InProgress (1)
Pending == ~FetchFailed /\ task.state \in {0, 1}

\* C14: createJobs issues at most 30 fetches of the task; every fetch, the
\* first included, comes right after exactly one sleep of a second: a sleep
\* is made at the top of an iteration only, it is followed by the fetch of
\* that iteration and by nothing else, and a fetch is made only when one
\* sleep more than fetches has been made; and a sleep or a fetch happens
\* only while every earlier poll was in state 0 or 1: after the first
\* Success, Failed, unknown state or fetch error there is none.
C14_SleepFetchBudget ==
    /\ [](prog = "main" =>
            /\ fetches <= MaxAttempts
            /\ sleeps = IF pc = "fetch" THEN fetches + 1 ELSE fetches)
    /\ [][sleeps' > sleeps => /\ pc = "poll" /\ pc' = "fetch"
                              /\ sleeps' = sleeps + 1
                              /\ fetches' = fetches
                              /\ issued' = issued
                              /\ fetches < MaxAttempts
                              /\ fetches = 0 \/ Pending]_vars
    /\ [][fetches' > fetches => /\ pc = "fetch"
                                /\ fetches' = fetches + 1
                                /\ sleeps' = sleeps]_vars
    /\ [][pc = "fetch" => fetches' = fetches + 1]_vars

C14_Witness ==
    /\ Returned
    /\ fetches = MaxAttempts /\ sleeps = MaxAttempts
    /\ ~FetchFailed /\ task.state = 2

\* C15: createJobs never returns to main an empty job list without an error,
\* so main's jobs[0] is always defined and main never aborts with an index
\* out of range between the creation of the jobs and their deletion.
C15_JobsNeverEmpty ==
    /\ (Returned /\ ret.err.kind = "nil") => Len(ret.jobs) >= 1
    /\ prog = "main" => pc # "panic"

====
